---- MODULE Spec2Model ----
(***************************************************************************)
(* Agrarian BNPL scoring: the risk model and calibrator                    *)
(* (scoring_engine.py), the product matcher (product_matcher.py), the      *)
(* label rules of the synthetic data generator (generator.py) and the      *)
(* credit policy (bnpl_policy.py).                                         *)
(*                                                                         *)
(* Numbers.  The Python code computes in binary floating point; the model  *)
(* computes the same formulas exactly, in integers and rationals:          *)
(*   - a probability is an integer count of 1/PROB_ONE (1/10000);          *)
(*   - a linear risk score is an integer count of 1/SCORE_ONE (1/30000);   *)
(*   - farm_size_ha is held in tenths of a hectare;                        *)
(*   - liquidity_ratio is held in hundredths;                              *)
(*   - currency amounts, years, counts and the two 0..100 scores are       *)
(*     whole numbers;                                                      *)
(*   - a multiplier is a reduced rational [n, d].                          *)
(***************************************************************************)
EXTENDS Integers, Sequences, FiniteSets, TLC

VARIABLES op, row, recommended_product, late_payment_prob, out

vars == <<op, row, recommended_product, late_payment_prob, out>>

(***************************************************************************)
(* Scales and sampling                                                     *)
(***************************************************************************)
PROB_ONE == 100 * 100

\* p / 100 as a probability of the model, e.g. Pct(50) is 0.50
Pct(p) == (p * PROB_ONE) \div 100

\* How many grid steps are sampled on each side of every threshold.
Spread == 1

Around(t, unit) == { t + k * unit : k \in (0 - Spread)..Spread }

Max(a, b) == IF a >= b THEN a ELSE b

Min(a, b) == IF a <= b THEN a ELSE b

(***************************************************************************)
(* Exact rationals                                                         *)
(***************************************************************************)
RECURSIVE Gcd(_, _)
Gcd(a, b) == IF b = 0 THEN a ELSE Gcd(b, a % b)

Rat(n, d) == LET g == Gcd(n, d) IN [n |-> n \div g, d |-> d \div g]

RatMul(x, y) ==
    LET g1 == Gcd(x.n, y.d)
        g2 == Gcd(y.n, x.d)
    IN  [n |-> (x.n \div g1) * (y.n \div g2), d |-> (x.d \div g2) * (y.d \div g1)]

RatLess(x, y) == x.n * y.d < y.n * x.d

RatMax(x, y) == IF RatLess(x, y) THEN y ELSE x

RatMin(x, y) == IF RatLess(y, x) THEN y ELSE x

\* 1 - x, for a rational x <= 1
RatOneMinus(x) == Rat(x.d - x.n, x.d)

\* Python's round() of a non-negative value to an integer: to nearest, a tie
\* goes to the even neighbour.
RoundHalfEven(x) ==
    LET q == x.n \div x.d
        r == x.n % x.d
    IN  IF 2 * r > x.d THEN q + 1
        ELSE IF 2 * r < x.d THEN q
        ELSE IF q % 2 = 0 THEN q ELSE q + 1

\* Mutant: round(x, -2), the nearest multiple of 100
RoundToHundreds(x) == 100 * RoundHalfEven(RatMul(x, Rat(1, 100)))

\* round(x, -3): to the nearest multiple of 1000
RoundToThousands(x) == 1000 * RoundHalfEven(RatMul(x, Rat(1, 1000)))

\* a probability of the model as a rational
ProbRat(p) == Rat(p, PROB_ONE)

(***************************************************************************)
(* bnpl_policy.py                                                          *)
(***************************************************************************)
\* Mutant: an unknown product given a base limit of 40,000
base_limits_drifted(product) ==
    CASE product = "Seeds_BNPL" -> 20000
      [] product = "Fertilizer_BNPL" -> 35000
      [] product = "Equipment_Lease" -> 150000
      [] product = "Input_Bundle" -> 50000
      [] product = "Cash_Advance" -> 10000
      [] product = "Premium_BNPL" -> 75000
      [] OTHER -> 40000

base_limits(product) ==
    CASE product = "Seeds_BNPL" -> 20000
      [] product = "Fertilizer_BNPL" -> 35000
      [] product = "Equipment_Lease" -> 150000
      [] product = "Input_Bundle" -> 50000
      [] product = "Cash_Advance" -> 10000
      [] product = "Premium_BNPL" -> 75000
      [] OTHER -> 50000

base_tenors(product) ==
    CASE product = "Seeds_BNPL" -> 4
      [] product = "Fertilizer_BNPL" -> 3
      [] product = "Equipment_Lease" -> 12
      [] product = "Input_Bundle" -> 6
      [] product = "Cash_Advance" -> 2
      [] product = "Premium_BNPL" -> 6
      [] OTHER -> 6

\* Mutant: abs(1 - 2.5 p) where the code has max(0.2, 1 - 2.5 p)
risk_mult_abs(p) ==
    LET decay == RatMul(ProbRat(p), Rat(25, 10))
    IN  IF decay.n <= decay.d THEN RatOneMinus(decay)
        ELSE Rat(decay.n - decay.d, decay.d)

\* max(0.2, 1 - (late_payment_prob * 2.5))
risk_mult(p) ==
    RatMax(Rat(2, 10), RatOneMinus(RatMul(ProbRat(p), Rat(25, 10))))

\* Mutant: the income multiplier without its cap of 2.5
income_mult_uncapped(r) ==
    Rat(r.monthly_income_est, 50000)

\* min(2.5, row['monthly_income_est'] / 50000)
income_mult(r) ==
    RatMin(Rat(25, 10), Rat(r.monthly_income_est, 50000))

tenure_mult(r) ==
    LET t0 == Rat(1, 1)
        t1 == IF r.farm_type = "commercial" THEN RatMul(t0, Rat(13, 10)) ELSE t0
        t2 == IF r.years_experience > 15 THEN RatMul(t1, Rat(12, 10)) ELSE t1
        t3 == IF r.device_trust_score > 85 THEN RatMul(t2, Rat(11, 10)) ELSE t2
    IN  t3

\* base_limit * risk_multiplier * income_multiplier * tenure_multiplier,
\* before it is rounded
bnpl_limit_unrounded(r, product, p) ==
    LET base_limit == base_limits(product)
        risk_multiplier == risk_mult(p)
        income_multiplier == income_mult(r)
        tenure_multiplier == tenure_mult(r)
    IN  RatMul(RatMul(RatMul(Rat(base_limit, 1), risk_multiplier),
                      income_multiplier), tenure_multiplier)

\* Mutant: the limit computed without the decline gate
compute_bnpl_limit_ungated(r, product, p) ==
    RoundToThousands(bnpl_limit_unrounded(r, product, p))

compute_bnpl_limit(r, product, p) ==
    IF p >= Pct(50) THEN 0
    ELSE RoundToThousands(bnpl_limit_unrounded(r, product, p))

\* Mutant: the risk adjustment without its floor of 2 months
compute_bnpl_tenor_unfloored(r, product, p) ==
    IF p >= Pct(50) THEN 0
    ELSE LET base_tenor == base_tenors(product)
             tenor == IF p < Pct(15) THEN base_tenor
                      ELSE IF p < Pct(30) THEN base_tenor - 1
                      ELSE base_tenor - 2
         IN  IF r.crop_type \in {"maize", "rice"} THEN Min(tenor, 4)
             ELSE IF r.crop_type = "horticulture" THEN Min(tenor, 3)
             ELSE tenor

\* Mutant: the 4-month cap applied to maize and not to rice
compute_bnpl_tenor_maize_only(r, product, p) ==
    IF p >= Pct(50) THEN 0
    ELSE LET base_tenor == base_tenors(product)
             tenor == IF p < Pct(15) THEN base_tenor
                      ELSE IF p < Pct(30) THEN Max(2, base_tenor - 1)
                      ELSE Max(2, base_tenor - 2)
         IN  IF r.crop_type = "maize" THEN Min(tenor, 4)
             ELSE IF r.crop_type = "horticulture" THEN Min(tenor, 3)
             ELSE tenor

\* Mutant: the two risk reductions swapped between the bands
compute_bnpl_tenor_swapped(r, product, p) ==
    IF p >= Pct(50) THEN 0
    ELSE LET base_tenor == base_tenors(product)
             tenor == IF p < Pct(15) THEN base_tenor
                      ELSE IF p < Pct(30) THEN Max(2, base_tenor - 2)
                      ELSE Max(2, base_tenor - 1)
         IN  IF r.crop_type \in {"maize", "rice"} THEN Min(tenor, 4)
             ELSE IF r.crop_type = "horticulture" THEN Min(tenor, 3)
             ELSE tenor

compute_bnpl_tenor(r, product, p) ==
    IF p >= Pct(50) THEN 0
    ELSE LET base_tenor == base_tenors(product)
             tenor == IF p < Pct(15) THEN base_tenor
                      ELSE IF p < Pct(30) THEN Max(2, base_tenor - 1)
                      ELSE Max(2, base_tenor - 2)
         IN  IF r.crop_type \in {"maize", "rice"} THEN Min(tenor, 4)
             ELSE IF r.crop_type = "horticulture" THEN Min(tenor, 3)
             ELSE tenor

\* The tenor after the risk adjustment and before the crop-cycle override
\* (the value of the local tenor at line 100), for p below the decline gate
risk_adjusted_tenor(product, p) ==
    IF p < Pct(15) THEN base_tenors(product)
    ELSE IF p < Pct(30) THEN Max(2, base_tenors(product) - 1)
    ELSE Max(2, base_tenors(product) - 2)

\* The back-solved base limit, dividend / divisor, kept as the pair
BackSolved(dividend, divisor) == [dividend |-> dividend, divisor |-> divisor]

\* The value 0 that the guard reports in place of a quotient
NoBackSolve == BackSolved(0, Rat(1, 1))

\* Mutant: the back-solve without its guard
get_policy_explanation_unguarded(r, product, p, bnpl_limit, bnpl_tenor) ==
    LET risk == RatMax(Rat(2, 10), RatOneMinus(RatMul(ProbRat(p), Rat(25, 10))))
        income == RatMin(Rat(25, 10), Rat(r.monthly_income_est, 50000))
        commercial == r.farm_type = "commercial"
        experienced == r.years_experience > 15
        trusted == r.device_trust_score > 85
        tenure ==
            RatMul(RatMul(IF commercial THEN Rat(13, 10) ELSE Rat(1, 1),
                          IF experienced THEN Rat(12, 10) ELSE Rat(1, 1)),
                   IF trusted THEN Rat(11, 10) ELSE Rat(1, 1))
        tenure_factors ==
            (IF commercial THEN << "commercial farm (+30%)" >> ELSE << >>)
            \o (IF experienced THEN << "experienced farmer (+20%)" >> ELSE << >>)
            \o (IF trusted THEN << "high device trust (+10%)" >> ELSE << >>)
        tenor_reason ==
            IF p < Pct(15) THEN "Low risk: full base tenor"
            ELSE IF p < Pct(30) THEN "Medium risk: shortened by 1 month"
            ELSE "High risk: shortened by 2 months for manual review"
        crop_impact ==
            IF r.crop_type \in {"maize", "rice"}
            THEN " (capped at 4mo for grain harvest cycle)"
            ELSE IF r.crop_type = "horticulture"
            THEN " (capped at 3mo for short-season crops)"
            ELSE "No crop cycle override"
        multiplier_product == RatMul(RatMul(risk, income), tenure)
    IN  [limit_breakdown |->
            [base_limit |-> BackSolved(bnpl_limit, multiplier_product),
             risk_multiplier |-> risk,
             income_multiplier |-> income,
             tenure_multiplier |-> tenure,
             tenure_factors |->
                 IF tenure_factors = << >> THEN << "no tenure boosts" >>
                 ELSE tenure_factors,
             final_limit |-> bnpl_limit],
         tenor_breakdown |->
            [base_tenor |->
                 CASE product = "Seeds_BNPL" -> 4
                   [] product = "Fertilizer_BNPL" -> 3
                   [] product = "Equipment_Lease" -> 12
                   [] product = "Input_Bundle" -> 6
                   [] product = "Cash_Advance" -> 2
                   [] product = "Premium_BNPL" -> 6
                   [] OTHER -> 6,
             risk_adjustment |-> tenor_reason,
             crop_cycle_impact |-> crop_impact,
             final_tenor |-> bnpl_tenor]]

\* The breakdown dict; decision_rationale, a display sentence formatted from
\* the inputs, is left out.
get_policy_explanation(r, product, p, bnpl_limit, bnpl_tenor) ==
    LET risk == RatMax(Rat(2, 10), RatOneMinus(RatMul(ProbRat(p), Rat(25, 10))))
        income == RatMin(Rat(25, 10), Rat(r.monthly_income_est, 50000))
        commercial == r.farm_type = "commercial"
        experienced == r.years_experience > 15
        trusted == r.device_trust_score > 85
        tenure ==
            RatMul(RatMul(IF commercial THEN Rat(13, 10) ELSE Rat(1, 1),
                          IF experienced THEN Rat(12, 10) ELSE Rat(1, 1)),
                   IF trusted THEN Rat(11, 10) ELSE Rat(1, 1))
        tenure_factors ==
            (IF commercial THEN << "commercial farm (+30%)" >> ELSE << >>)
            \o (IF experienced THEN << "experienced farmer (+20%)" >> ELSE << >>)
            \o (IF trusted THEN << "high device trust (+10%)" >> ELSE << >>)
        tenor_reason ==
            IF p < Pct(15) THEN "Low risk: full base tenor"
            ELSE IF p < Pct(30) THEN "Medium risk: shortened by 1 month"
            ELSE "High risk: shortened by 2 months for manual review"
        crop_impact ==
            IF r.crop_type \in {"maize", "rice"}
            THEN " (capped at 4mo for grain harvest cycle)"
            ELSE IF r.crop_type = "horticulture"
            THEN " (capped at 3mo for short-season crops)"
            ELSE "No crop cycle override"
        multiplier_product == RatMul(RatMul(risk, income), tenure)
    IN  [limit_breakdown |->
            [base_limit |-> IF RatLess(Rat(0, 1), multiplier_product)
                            THEN BackSolved(bnpl_limit, multiplier_product)
                            ELSE NoBackSolve,
             risk_multiplier |-> risk,
             income_multiplier |-> income,
             tenure_multiplier |-> tenure,
             tenure_factors |->
                 IF tenure_factors = << >> THEN << "no tenure boosts" >>
                 ELSE tenure_factors,
             final_limit |-> bnpl_limit],
         tenor_breakdown |->
            [base_tenor |->
                 CASE product = "Seeds_BNPL" -> 4
                   [] product = "Fertilizer_BNPL" -> 3
                   [] product = "Equipment_Lease" -> 12
                   [] product = "Input_Bundle" -> 6
                   [] product = "Cash_Advance" -> 2
                   [] product = "Premium_BNPL" -> 6
                   [] OTHER -> 6,
             risk_adjustment |-> tenor_reason,
             crop_cycle_impact |-> crop_impact,
             final_tenor |-> bnpl_tenor]]

(***************************************************************************)
(* scoring_engine.py                                                       *)
(***************************************************************************)
\* a sub-risk is an integer count of 1/RISK_ONE, a weight one of 1/100
RISK_ONE == 3 * 100

SCORE_ONE == 100 * RISK_ONE

\* r / 100 as a sub-risk, e.g. Risk(15) is 0.15
Risk(r) == (r * RISK_ONE) \div 100

\* Mutant: an unknown region scored 0.25
region_map_drifted(region) ==
    CASE region \in {"North", "East"} -> Risk(15)
      [] region = "South" -> Risk(25)
      [] region = "West" -> Risk(30)
      [] region = "Central" -> Risk(20)
      [] OTHER -> Risk(25)

region_map(region) ==
    CASE region = "North" -> Risk(15)
      [] region = "South" -> Risk(25)
      [] region = "East" -> Risk(15)
      [] region = "West" -> Risk(30)
      [] region = "Central" -> Risk(20)
      [] OTHER -> Risk(20)

farm_type_map(farm_type) ==
    CASE farm_type = "smallholder" -> Risk(35)
      [] farm_type = "commercial" -> Risk(10)
      [] farm_type = "cooperative" -> Risk(20)
      [] OTHER -> Risk(25)

experience_risk(r) ==
    LET exp == r.years_experience
    IN  IF exp <= 2 THEN Risk(40)
        ELSE IF exp <= 10 THEN Risk(25)
        ELSE IF exp <= 20 THEN Risk(15)
        ELSE Risk(10)

\* min(prior_defaults * 0.15, 0.75)
prior_defaults_risk(r) == Min(r.prior_defaults * Risk(15), Risk(75))

\* Mutant: 1 - liquidity_ratio / 3.0, without the cap at 1.0
liquidity_risk_uncapped(r) ==
    RISK_ONE - ((r.liquidity_ratio * RISK_ONE) \div (3 * 100))

\* 1 - min(liquidity_ratio / 3.0, 1.0); liquidity_ratio is in hundredths, so
\* liquidity_ratio / 3.0 counted in 1/RISK_ONE is the field itself
liquidity_risk(r) ==
    LET liquidity_norm == Min((r.liquidity_ratio * RISK_ONE) \div (3 * 100), RISK_ONE)
    IN  RISK_ONE - liquidity_norm

\* farm_size_ha is in tenths of a hectare
farm_size_risk(r) ==
    LET size == r.farm_size_ha
    IN  IF size < 1 * 10 THEN Risk(30)
        ELSE IF size < 10 * 10 THEN Risk(10)
        ELSE IF size < 100 * 10 THEN Risk(5)
        ELSE Risk(15)

device_risk(r) == ((100 - r.device_trust_score) * RISK_ONE) \div 100

identity_risk(r) == ((100 - r.identity_consistency) * RISK_ONE) \div 100

\* The eight weighted terms, in the order of the sum
\* Mutant: two hundredths of weight moved from region to identity
weighted_terms_reweighted(r) ==
    << 10 * region_map(r.region),
       18 * farm_type_map(r.farm_type),
       15 * experience_risk(r),
       20 * prior_defaults_risk(r),
       10 * liquidity_risk(r),
       8 * farm_size_risk(r),
       10 * device_risk(r),
       9 * identity_risk(r) >>

weighted_terms(r) ==
    << 12 * region_map(r.region),
       18 * farm_type_map(r.farm_type),
       15 * experience_risk(r),
       20 * prior_defaults_risk(r),
       10 * liquidity_risk(r),
       8 * farm_size_risk(r),
       10 * device_risk(r),
       7 * identity_risk(r) >>

RECURSIVE SumSeq(_)
SumSeq(s) == IF s = << >> THEN 0 ELSE Head(s) + SumSeq(Tail(s))

compute_linear_risk_score(r) == SumSeq(weighted_terms(r))

(***************************************************************************)
(* explain_score: the sub-risks recomputed from the row, one component per *)
(* feature, sorted by contribution.                                        *)
(***************************************************************************)
\* One entry of the components list; the weight is in hundredths and the
\* contribution, weight * raw_risk, in 1/SCORE_ONE
Component(feature, raw_risk, weight) ==
    [feature |-> feature, raw_risk |-> raw_risk, weight |-> weight,
     contribution |-> weight * raw_risk]

\* Mutant: an unknown region explained with 0.25 where the score uses 0.20
components_drifted(r) ==
    LET region_risk ==
            CASE r.region \in {"North", "East"} -> Risk(15)
              [] r.region = "South" -> Risk(25)
              [] r.region = "West" -> Risk(30)
              [] r.region = "Central" -> Risk(20)
              [] OTHER -> Risk(25)
        farm_type_risk ==
            CASE r.farm_type = "smallholder" -> Risk(35)
              [] r.farm_type = "commercial" -> Risk(10)
              [] r.farm_type = "cooperative" -> Risk(20)
              [] OTHER -> Risk(25)
        exp == r.years_experience
        exp_risk ==
            IF exp <= 2 THEN Risk(40)
            ELSE IF exp <= 10 THEN Risk(25)
            ELSE IF exp <= 20 THEN Risk(15)
            ELSE Risk(10)
        defaults_risk == Min(r.prior_defaults * Risk(15), Risk(75))
        liq_risk ==
            RISK_ONE - Min((r.liquidity_ratio * RISK_ONE) \div (3 * 100), RISK_ONE)
        size == r.farm_size_ha
        size_risk ==
            IF size < 1 * 10 THEN Risk(30)
            ELSE IF size < 10 * 10 THEN Risk(10)
            ELSE IF size < 100 * 10 THEN Risk(5)
            ELSE Risk(15)
        dev_risk == ((100 - r.device_trust_score) * RISK_ONE) \div 100
        id_risk == ((100 - r.identity_consistency) * RISK_ONE) \div 100
    IN  << Component("region_risk", region_risk, 12),
           Component("farm_type_risk", farm_type_risk, 18),
           Component("experience_risk", exp_risk, 15),
           Component("prior_defaults", defaults_risk, 20),
           Component("liquidity_risk", liq_risk, 10),
           Component("farm_size_risk", size_risk, 8),
           Component("device_trust", dev_risk, 10),
           Component("identity_consistency", id_risk, 7) >>

\* The components list in the order it is built (lines 151-201)
components(r) ==
    LET region_risk ==
            CASE r.region \in {"North", "East"} -> Risk(15)
              [] r.region = "South" -> Risk(25)
              [] r.region = "West" -> Risk(30)
              [] r.region = "Central" -> Risk(20)
              [] OTHER -> Risk(20)
        farm_type_risk ==
            CASE r.farm_type = "smallholder" -> Risk(35)
              [] r.farm_type = "commercial" -> Risk(10)
              [] r.farm_type = "cooperative" -> Risk(20)
              [] OTHER -> Risk(25)
        exp == r.years_experience
        exp_risk ==
            IF exp <= 2 THEN Risk(40)
            ELSE IF exp <= 10 THEN Risk(25)
            ELSE IF exp <= 20 THEN Risk(15)
            ELSE Risk(10)
        defaults_risk == Min(r.prior_defaults * Risk(15), Risk(75))
        liq_risk ==
            RISK_ONE - Min((r.liquidity_ratio * RISK_ONE) \div (3 * 100), RISK_ONE)
        size == r.farm_size_ha
        size_risk ==
            IF size < 1 * 10 THEN Risk(30)
            ELSE IF size < 10 * 10 THEN Risk(10)
            ELSE IF size < 100 * 10 THEN Risk(5)
            ELSE Risk(15)
        dev_risk == ((100 - r.device_trust_score) * RISK_ONE) \div 100
        id_risk == ((100 - r.identity_consistency) * RISK_ONE) \div 100
    IN  << Component("region_risk", region_risk, 12),
           Component("farm_type_risk", farm_type_risk, 18),
           Component("experience_risk", exp_risk, 15),
           Component("prior_defaults", defaults_risk, 20),
           Component("liquidity_risk", liq_risk, 10),
           Component("farm_size_risk", size_risk, 8),
           Component("device_trust", dev_risk, 10),
           Component("identity_consistency", id_risk, 7) >>

\* sorted(components, key=contribution, reverse=True): descending and stable
RECURSIVE InsertByContribution(_, _)
InsertByContribution(sorted, e) ==
    IF sorted = << >> THEN << e >>
    ELSE IF Head(sorted).contribution >= e.contribution
         THEN << Head(sorted) >> \o InsertByContribution(Tail(sorted), e)
         ELSE << e >> \o sorted

RECURSIVE components_sorted(_)
components_sorted(s) ==
    IF s = << >> THEN << >>
    ELSE InsertByContribution(components_sorted(SubSeq(s, 1, Len(s) - 1)), s[Len(s)])

\* Mutant: the top 3 sliced from the list before it is sorted
explain_score_unsorted_top(r, linear_score) ==
    [linear_risk_score |-> linear_score,
     total_contributors |-> Len(components(r)),
     top_3_contributors |-> SubSeq(components(r), 1, Min(3, Len(components(r)))),
     all_components |-> components_sorted(components(r))]

explain_score(r, linear_score) ==
    LET sorted == components_sorted(components(r))
    IN  [linear_risk_score |-> linear_score,
         total_contributors |-> Len(components(r)),
         top_3_contributors |-> SubSeq(sorted, 1, Min(3, Len(sorted))),
         all_components |-> sorted]

(***************************************************************************)
(* np.exp, in fixed point.  e^(-m / EXP_UNIT) for a whole m >= 0, as a     *)
(* count of 1/EXP_ONE: m is written in base 13 and the four factors are    *)
(* looked up and multiplied.  ExpNegTable[j + 1][d + 1] is                 *)
(* e^(-d * 13^j / EXP_UNIT) to the nearest 1/EXP_ONE.                      *)
(***************************************************************************)
EXP_HALF == 2 ^ 15

EXP_ONE == EXP_HALF * EXP_HALF

ExpNegTable ==
    << <<1073741824, 1073205087, 1072668619, 1072132419, 1071596486, 1071060822,
         1070525426, 1069990297, 1069455435, 1068920841, 1068386514, 1067852455,
         1067318662>>,
       <<1073741824, 1066785136, 1059873520, 1053006683, 1046184336, 1039406191,
         1032671961, 1025981361, 1019334109, 1012729924, 1006168527, 999649641,
         993172990>>,
       <<1073741824, 986738301, 906784530, 833309281, 765787609, 703737107,
         646714454, 594312252, 546156114, 501901989, 461233701, 423860698,
         389515967>>,
       <<1073741824, 357954133, 119331443, 39781615, 13262027, 4421172, 1473890,
         491352, 163802, 54607, 18204, 6069, 2023>> >>

\* floor(a * b / EXP_ONE) for 0 <= a, b <= EXP_ONE, without leaving 32 bits
MulFix(a, b) ==
    LET ah == a \div EXP_HALF
        al == a % EXP_HALF
        bh == b \div EXP_HALF
        bl == b % EXP_HALF
    IN  ah * bh + ((ah * bl + al * bh + ((al * bl) \div EXP_HALF)) \div EXP_HALF)

ExpNeg(m) ==
    LET d0 == m % 13
        d1 == (m \div 13) % 13
        d2 == (m \div (13 * 13)) % 13
        d3 == m \div (13 * 13 * 13)
    IN  MulFix(MulFix(MulFix(ExpNegTable[4][d3 + 1], ExpNegTable[3][d2 + 1]),
                      ExpNegTable[2][d1 + 1]), ExpNegTable[1][d0 + 1])

\* One decimal digit of rem / den (0 <= rem < den): 10 * rem is formed by
\* ten additions modulo den, counting the wraps.
RECURSIVE TenFold(_, _, _, _, _)
TenFold(i, acc, cnt, rem, den) ==
    IF i = 0 THEN [digit |-> cnt, rem |-> acc]
    ELSE IF acc >= den - rem THEN TenFold(i - 1, acc - (den - rem), cnt + 1, rem, den)
    ELSE TenFold(i - 1, acc + rem, cnt, rem, den)

\* floor(scale * rem / den) for scale a power of ten, 0 <= rem < den
RECURSIVE DecimalFloor(_, _, _, _)
DecimalFloor(scale, q, rem, den) ==
    IF scale = 1 THEN q
    ELSE LET s == TenFold(10, 0, 0, rem, den)
         IN  DecimalFloor(scale \div 10, 10 * q + s.digit, s.rem, den)

\* 1 / (1 + u) for x > 0 and u / (1 + u) for x < 0, u = e^(-m / EXP_UNIT),
\* cut to a whole count of 1/scale; m is within the table, 0 < m < 13^4.
SigmoidFloor(scale, m, positive) ==
    LET u == ExpNeg(m)
    IN  IF positive THEN DecimalFloor(scale, 0, EXP_ONE, EXP_ONE + u)
        ELSE DecimalFloor(scale, 0, u, EXP_ONE + u)

\* Mutant: the midpoint of the curve moved to 0.40
sigmoid_pd_mapping_theta40(linear_score) ==
    LET k == 15
        theta == (40 * SCORE_ONE) \div 100
        x == k * (linear_score - theta)
        m == (IF x < 0 THEN 0 - x ELSE x) \div k
    IN  IF x = 0 THEN PROB_ONE \div 2
        ELSE IF m < 13 * 13 * 13 * 13 THEN SigmoidFloor(PROB_ONE, m, x > 0)
        ELSE IF x < 0 THEN 0
        ELSE IF m >= (53 * 693147 * 2) \div 1000 + 1 THEN PROB_ONE
        ELSE PROB_ONE - 1

\* 1.0 / (1.0 + np.exp(-k * (linear_score - theta))), k = 15.0, theta = 0.35,
\* cut to a whole count of 1/PROB_ONE.  With x = k * (linear_score - theta)
\* and u = e^(-|x|):  x < 0 gives u / (1 + u), x > 0 gives 1 / (1 + u).
\* Beyond the table u < 10^-6, so the value is within 1/PROB_ONE of an end
\* of the scale.  In binary64 the sum 1.0 + u is 1.0 once u <= 2^-53, that
\* is once |x| >= 53 ln 2 (ln 2 = 0.693147...): from there on the quotient
\* is 1.0 itself, and PROB_ONE is returned for no other value.
sigmoid_pd_mapping(linear_score) ==
    LET k == 15
        theta == (35 * SCORE_ONE) \div 100
        x == k * (linear_score - theta)
        m == (IF x < 0 THEN 0 - x ELSE x) \div k
    IN  IF x = 0 THEN PROB_ONE \div 2
        ELSE IF m < 13 * 13 * 13 * 13 THEN SigmoidFloor(PROB_ONE, m, x > 0)
        ELSE IF x < 0 THEN 0
        ELSE IF m >= (53 * 693147 * 2) \div 1000 + 1 THEN PROB_ONE
        ELSE PROB_ONE - 1

\* The same value to eight decimals, for a linear_score within the table
\* (-0.60 to 1.30)
sigmoid_pd_digits(linear_score) ==
    LET k == 15
        theta == (35 * SCORE_ONE) \div 100
        x == k * (linear_score - theta)
        m == (IF x < 0 THEN 0 - x ELSE x) \div k
    IN  IF x = 0 THEN (PROB_ONE * PROB_ONE) \div 2
        ELSE SigmoidFloor(PROB_ONE * PROB_ONE, m, x > 0)

\* Mutant: the 0.35 boundary value counted as Medium
get_risk_tier_inclusive(p) ==
    IF p < Pct(15) THEN "Low"
    ELSE IF p <= Pct(35) THEN "Medium"
    ELSE IF p < Pct(50) THEN "High"
    ELSE "Decline"

get_risk_tier(p) ==
    IF p < Pct(15) THEN "Low"
    ELSE IF p < Pct(35) THEN "Medium"
    ELSE IF p < Pct(50) THEN "High"
    ELSE "Decline"

\* Mutant: the approve boundary moved to 0.20 in the decision ladder alone
get_decision_drifted(p) ==
    IF p < Pct(20) THEN "approve"
    ELSE IF p < Pct(50) THEN "manual_review"
    ELSE "decline"

get_decision(p) ==
    IF p < Pct(15) THEN "approve"
    ELSE IF p < Pct(50) THEN "manual_review"
    ELSE "decline"

(***************************************************************************)
(* product_matcher.py                                                      *)
(***************************************************************************)
Cand(product, score) == [product |-> product, score |-> score]

\* Mutant: rule 5 reads identity_consistency where it should read
\* device_trust_score
product_scores_identity(r) ==
    (IF r.crop_type \in {"maize", "rice"} /\ r.avg_order_value < 30000
        THEN << Cand("Seeds_BNPL", 100) >> ELSE << >>)
    \o (IF r.crop_type \in {"vegetables", "horticulture"} /\ r.avg_order_value < 50000
        THEN << Cand("Fertilizer_BNPL", 95) >> ELSE << >>)
    \o (IF r.farm_type = "commercial" /\ r.avg_order_value > 80000
        THEN << Cand("Equipment_Lease", 90) >> ELSE << >>)
    \o (IF r.crop_type = "mixed"
           \/ (r.farm_type = "cooperative" /\ r.device_trust_score > 60)
        THEN << Cand("Input_Bundle", 85) >> ELSE << >>)
    \o (IF r.avg_order_value < 15000 /\ r.identity_consistency > 70
        THEN << Cand("Cash_Advance", 80) >> ELSE << >>)
    \o << Cand("Premium_BNPL", 50) >>

\* Mutant: the fallback appended with a base score of 82
product_scores_fallback_high(r) ==
    (IF r.crop_type \in {"maize", "rice"} /\ r.avg_order_value < 30000
        THEN << Cand("Seeds_BNPL", 100) >> ELSE << >>)
    \o (IF r.crop_type \in {"vegetables", "horticulture"} /\ r.avg_order_value < 50000
        THEN << Cand("Fertilizer_BNPL", 95) >> ELSE << >>)
    \o (IF r.farm_type = "commercial" /\ r.avg_order_value > 80000
        THEN << Cand("Equipment_Lease", 90) >> ELSE << >>)
    \o (IF r.crop_type = "mixed"
           \/ (r.farm_type = "cooperative" /\ r.device_trust_score > 60)
        THEN << Cand("Input_Bundle", 85) >> ELSE << >>)
    \o (IF r.avg_order_value < 15000 /\ r.device_trust_score > 70
        THEN << Cand("Cash_Advance", 80) >> ELSE << >>)
    \o << Cand("Premium_BNPL", 82) >>

\* Mutant: rule 5 appends a second Input_Bundle candidate
product_scores_duplicate(r) ==
    (IF r.crop_type \in {"maize", "rice"} /\ r.avg_order_value < 30000
        THEN << Cand("Seeds_BNPL", 100) >> ELSE << >>)
    \o (IF r.crop_type \in {"vegetables", "horticulture"} /\ r.avg_order_value < 50000
        THEN << Cand("Fertilizer_BNPL", 95) >> ELSE << >>)
    \o (IF r.farm_type = "commercial" /\ r.avg_order_value > 80000
        THEN << Cand("Equipment_Lease", 90) >> ELSE << >>)
    \o (IF r.crop_type = "mixed"
           \/ (r.farm_type = "cooperative" /\ r.device_trust_score > 60)
        THEN << Cand("Input_Bundle", 85) >> ELSE << >>)
    \o (IF r.avg_order_value < 15000 /\ r.device_trust_score > 70
        THEN << Cand("Input_Bundle", 80) >> ELSE << >>)
    \o << Cand("Premium_BNPL", 50) >>

\* Rules 1-6: the candidates in the order the rules append them
product_scores(r) ==
    (IF r.crop_type \in {"maize", "rice"} /\ r.avg_order_value < 30000
        THEN << Cand("Seeds_BNPL", 100) >> ELSE << >>)
    \o (IF r.crop_type \in {"vegetables", "horticulture"} /\ r.avg_order_value < 50000
        THEN << Cand("Fertilizer_BNPL", 95) >> ELSE << >>)
    \o (IF r.farm_type = "commercial" /\ r.avg_order_value > 80000
        THEN << Cand("Equipment_Lease", 90) >> ELSE << >>)
    \o (IF r.crop_type = "mixed"
           \/ (r.farm_type = "cooperative" /\ r.device_trust_score > 60)
        THEN << Cand("Input_Bundle", 85) >> ELSE << >>)
    \o (IF r.avg_order_value < 15000 /\ r.device_trust_score > 70
        THEN << Cand("Cash_Advance", 80) >> ELSE << >>)
    \o << Cand("Premium_BNPL", 50) >>

\* Mutant: the Input_Bundle size boost raised from 4 to 6
boost_wide(r, product) ==
    (IF product = "Equipment_Lease" /\ r.farm_size_ha > 50 * 10 THEN 5 ELSE 0)
    + (IF product \in {"Seeds_BNPL", "Fertilizer_BNPL"} /\ r.farm_type = "smallholder"
       THEN 3 ELSE 0)
    + (IF product = "Input_Bundle" /\ r.farm_size_ha > 10 * 10 THEN 6 ELSE 0)
    + (IF r.device_trust_score > 80 THEN 2 ELSE 0)

\* Mutant: the Input_Bundle size boost raised from 4 to 5
boost_tied(r, product) ==
    (IF product = "Equipment_Lease" /\ r.farm_size_ha > 50 * 10 THEN 5 ELSE 0)
    + (IF product \in {"Seeds_BNPL", "Fertilizer_BNPL"} /\ r.farm_type = "smallholder"
       THEN 3 ELSE 0)
    + (IF product = "Input_Bundle" /\ r.farm_size_ha > 10 * 10 THEN 5 ELSE 0)
    + (IF r.device_trust_score > 80 THEN 2 ELSE 0)

\* The secondary boost of one candidate (farm_size_ha is in tenths)
boost(r, product) ==
    (IF product = "Equipment_Lease" /\ r.farm_size_ha > 50 * 10 THEN 5 ELSE 0)
    + (IF product \in {"Seeds_BNPL", "Fertilizer_BNPL"} /\ r.farm_type = "smallholder"
       THEN 3 ELSE 0)
    + (IF product = "Input_Bundle" /\ r.farm_size_ha > 10 * 10 THEN 4 ELSE 0)
    + (IF r.device_trust_score > 80 THEN 2 ELSE 0)

boosted_scores(r) ==
    LET ps == product_scores(r)
    IN  [i \in 1..Len(ps) |-> Cand(ps[i].product, ps[i].score + boost(r, ps[i].product))]

\* list.sort(key=score, reverse=True): descending and stable, so candidates
\* of equal score keep the order in which they were appended
RECURSIVE InsertDesc(_, _)
InsertDesc(sorted, e) ==
    IF sorted = << >> THEN << e >>
    ELSE IF Head(sorted).score >= e.score
         THEN << Head(sorted) >> \o InsertDesc(Tail(sorted), e)
         ELSE << e >> \o sorted

RECURSIVE SortDesc(_)
SortDesc(s) ==
    IF s = << >> THEN << >>
    ELSE InsertDesc(SortDesc(SubSeq(s, 1, Len(s) - 1)), s[Len(s)])

\* Remove duplicates, keeping the first (highest-scoring) occurrence
RECURSIVE Unique(_, _)
Unique(s, seen) ==
    IF s = << >> THEN << >>
    ELSE IF Head(s).product \in seen THEN Unique(Tail(s), seen)
    ELSE << Head(s) >> \o Unique(Tail(s), seen \cup {Head(s).product})

unique_products(r) == Unique(SortDesc(boosted_scores(r)), {})

\* Mutant: the top-3 slice taken one place too far down the ranking
match_product_shifted(r) ==
    LET u == unique_products(r)
    IN  [top_1 |-> u[1].product,
         top_3 |-> [i \in 1..Min(3, Len(u) - 1) |-> u[i + 1].product]]

match_product(r) ==
    LET u == unique_products(r)
    IN  [top_1 |-> u[1].product,
         top_3 |-> [i \in 1..Min(3, Len(u)) |-> u[i].product]]

\* products.get(product_name, default): the metadata of a product
get_product_info(product_name) ==
    CASE product_name = "Seeds_BNPL" ->
            [name |-> "Seeds BNPL",
             description |-> "Seed financing for maize/rice farmers",
             base_limit |-> 20000, base_tenor_months |-> 4,
             target_crops |-> << "maize", "rice" >>]
      [] product_name = "Fertilizer_BNPL" ->
            [name |-> "Fertilizer BNPL",
             description |-> "Input financing for high-intensity crops",
             base_limit |-> 35000, base_tenor_months |-> 3,
             target_crops |-> << "vegetables", "horticulture" >>]
      [] product_name = "Equipment_Lease" ->
            [name |-> "Equipment Lease",
             description |-> "Machinery leasing for commercial farms",
             base_limit |-> 150000, base_tenor_months |-> 12,
             target_crops |-> << "all" >>]
      [] product_name = "Input_Bundle" ->
            [name |-> "Input Bundle",
             description |-> "Multi-input package for diversified farms",
             base_limit |-> 50000, base_tenor_months |-> 6,
             target_crops |-> << "mixed", "livestock" >>]
      [] product_name = "Cash_Advance" ->
            [name |-> "Cash Advance",
             description |-> "Short-term cash bridge for small needs",
             base_limit |-> 10000, base_tenor_months |-> 2,
             target_crops |-> << "all" >>]
      [] product_name = "Premium_BNPL" ->
            [name |-> "Premium BNPL",
             description |-> "General BNPL for established customers",
             base_limit |-> 75000, base_tenor_months |-> 6,
             target_crops |-> << "all" >>]
      [] OTHER ->
            [name |-> product_name, description |-> "Unknown product",
             base_limit |-> 50000, base_tenor_months |-> 6,
             target_crops |-> << "all" >>]

(***************************************************************************)
(* generator.py: the ground-truth label of a synthetic row                 *)
(***************************************************************************)
true_preferred_product(r) ==
    LET crop == r.crop_type
        aov == r.avg_order_value
        farm == r.farm_type
        trust == r.device_trust_score
    IN  IF crop \in {"maize", "rice"} /\ aov < 30000 THEN "Seeds_BNPL"
        ELSE IF crop \in {"vegetables", "horticulture"} /\ aov < 50000 THEN "Fertilizer_BNPL"
        ELSE IF farm = "commercial" /\ aov > 80000 THEN "Equipment_Lease"
        ELSE IF crop = "mixed" \/ (farm = "cooperative" /\ trust > 60) THEN "Input_Bundle"
        ELSE IF aov < 15000 /\ trust > 70 THEN "Cash_Advance"
        ELSE "Premium_BNPL"

(***************************************************************************)
(* test_suite.py: the end-to-end pipeline of one applicant                 *)
(***************************************************************************)
scoring_pipeline(r) ==
    LET linear_score == compute_linear_risk_score(r)
        late_prob == sigmoid_pd_mapping(linear_score)
        matched == match_product(r)
    IN  [linear_risk_score |-> linear_score,
         late_payment_prob |-> late_prob,
         risk_tier |-> get_risk_tier(late_prob),
         decision |-> get_decision(late_prob),
         recommended_product |-> matched.top_1,
         top_3_products |-> matched.top_3,
         bnpl_limit |-> compute_bnpl_limit(r, matched.top_1, late_prob),
         bnpl_tenor_months |-> compute_bnpl_tenor(r, matched.top_1, late_prob)]

(***************************************************************************)
(* Inputs.  A row is an applicant record as the scoring functions read it  *)
(* (the dict of applicant_to_dict, a generated DataFrame row, or a test's  *)
(* dict).  Each field is sampled on both sides of every threshold the code *)
(* compares it with, and at the ends of its validated range.               *)
(***************************************************************************)
Regions == {"North", "South", "East", "West", "Central"}

FarmTypes == {"smallholder", "commercial", "cooperative"}

CropTypes == {"maize", "rice", "vegetables", "livestock", "mixed", "horticulture"}

Products ==
    {"Seeds_BNPL", "Fertilizer_BNPL", "Equipment_Lease", "Input_Bundle",
     "Cash_Advance", "Premium_BNPL"}

\* a value outside each closed enumeration
AnyRegion == Regions \cup {"Unknown_Region"}

AnyFarmType == FarmTypes \cup {"Unknown_Farm"}

AnyCropType == CropTypes \cup {"Unknown_Crop"}

AnyProduct == Products \cup {"Unknown_Product"}

\* Scenario (a) of the test suite, with whole-number scores and a liquidity
\* ratio of 2.50
BaseRow ==
    [region |-> "North", farm_type |-> "smallholder", crop_type |-> "maize",
     farm_size_ha |-> 32, years_experience |-> 8, monthly_income_est |-> 42000,
     recent_cash_inflows |-> 105000, avg_order_value |-> 18500,
     device_trust_score |-> 76, identity_consistency |-> 83, prior_defaults |-> 0,
     liquidity_ratio |-> 250]

ProbPoints ==
    {0, PROB_ONE} \cup Around(Pct(15), 1) \cup Around(Pct(30), 1)
    \cup Around(Pct(32), 1) \cup Around(Pct(35), 1) \cup Around(Pct(50), 1)

IncomePoints ==
    {5000, 500000} \cup Around(50000, 1000) \cup Around(125000, 1000)

PolicyRows ==
    { [BaseRow EXCEPT !.farm_type = f, !.years_experience = y,
                      !.device_trust_score = t, !.monthly_income_est = i] :
        f \in AnyFarmType, y \in Around(15, 1), t \in Around(85, 1),
        i \in IncomePoints }

TenorRows == { [BaseRow EXCEPT !.crop_type = c] : c \in AnyCropType }

NotDone == [done |-> FALSE]

(***************************************************************************)
(* SpecPolicy: one call of compute_bnpl_limit or compute_bnpl_tenor on a   *)
(* row, a product name and a probability chosen by the caller.             *)
(***************************************************************************)
\* Rows a caller of the explanation may pass: the rows above, and a row
\* with no income
ExplanationRows ==
    PolicyRows \cup TenorRows \cup {[BaseRow EXCEPT !.monthly_income_est = 0]}

InitPolicy ==
    /\ op \in {"compute_bnpl_limit", "compute_bnpl_tenor", "get_policy_explanation",
               "get_product_info"}
    /\ row \in (CASE op = "compute_bnpl_limit" -> PolicyRows
                  [] op = "compute_bnpl_tenor" -> TenorRows
                  [] op = "get_policy_explanation" -> ExplanationRows
                  [] op = "get_product_info" -> {BaseRow})
    /\ recommended_product \in AnyProduct
    /\ late_payment_prob \in ProbPoints
    /\ out = NotDone

ComputeBnplLimit ==
    /\ op = "compute_bnpl_limit"
    /\ ~out.done
    /\ out' = [done |-> TRUE,
               bnpl_limit |-> compute_bnpl_limit(row, recommended_product,
                                                 late_payment_prob)]
    /\ UNCHANGED <<op, row, recommended_product, late_payment_prob>>

ComputeBnplTenor ==
    /\ op = "compute_bnpl_tenor"
    /\ ~out.done
    /\ out' = [done |-> TRUE,
               bnpl_tenor |-> compute_bnpl_tenor(row, recommended_product,
                                                 late_payment_prob)]
    /\ UNCHANGED <<op, row, recommended_product, late_payment_prob>>

\* One case of the policy demonstration: limit, tenor, then the explanation
\* of the two
GetPolicyExplanation ==
    /\ op = "get_policy_explanation"
    /\ ~out.done
    /\ \E limit \in {compute_bnpl_limit(row, recommended_product, late_payment_prob)} :
       \E tenor \in {compute_bnpl_tenor(row, recommended_product, late_payment_prob)} :
           out' = [done |-> TRUE, bnpl_limit |-> limit, bnpl_tenor |-> tenor,
                   explanation |->
                       get_policy_explanation(row, recommended_product,
                                              late_payment_prob, limit, tenor)]
    /\ UNCHANGED <<op, row, recommended_product, late_payment_prob>>

GetProductInfo ==
    /\ op = "get_product_info"
    /\ ~out.done
    /\ out' = [done |-> TRUE, product_info |-> get_product_info(recommended_product)]
    /\ UNCHANGED <<op, row, recommended_product, late_payment_prob>>

NextPolicy ==
    \/ ComputeBnplLimit
    \/ ComputeBnplTenor
    \/ GetPolicyExplanation
    \/ GetProductInfo

SpecPolicy == InitPolicy /\ [][NextPolicy]_vars

(***************************************************************************)
(* SpecMatcher: match_product called on a row (any categories), and the    *)
(* accuracy test's flow: the generator labels a row of its own making,     *)
(* then match_product is run on it.                                        *)
(***************************************************************************)
AovPoints ==
    {1000, 200000} \cup Around(15000, 1) \cup Around(30000, 1)
    \cup Around(50000, 1) \cup Around(80000, 1)

TrustPoints == {0, 100} \cup Around(60, 1) \cup Around(70, 1) \cup Around(80, 1)

\* tenths of a hectare
SizePoints == {5, 5000} \cup Around(10 * 10, 1) \cup Around(50 * 10, 1)

MatchRows(farms, crops) ==
    { [BaseRow EXCEPT !.crop_type = c, !.farm_type = f, !.avg_order_value = a,
                      !.device_trust_score = t, !.farm_size_ha = z] :
        c \in crops, f \in farms, a \in AovPoints, t \in TrustPoints,
        z \in SizePoints }

InitMatcher ==
    /\ op \in {"match_product", "generate"}
    /\ row \in (IF op = "generate" THEN MatchRows(FarmTypes, CropTypes)
                ELSE MatchRows(AnyFarmType, AnyCropType))
    /\ recommended_product = ""
    /\ late_payment_prob = 0
    /\ out = NotDone

MatchProduct ==
    /\ op = "match_product"
    /\ ~out.done
    /\ LET matched == match_product(row)
       IN  /\ out' = [done |-> TRUE, top_1 |-> matched.top_1, top_3 |-> matched.top_3]
           /\ recommended_product' = matched.top_1
    /\ UNCHANGED <<op, row, late_payment_prob>>

\* generate_synthetic_agrarian_data: the label of one generated row
GenerateLabel ==
    /\ op = "generate"
    /\ ~out.done
    /\ out' = [done |-> TRUE, matched |-> FALSE,
               true_preferred_product |-> true_preferred_product(row)]
    /\ UNCHANGED <<op, row, recommended_product, late_payment_prob>>

\* test_product_match_accuracy_target: the prediction for a labelled row
PredictLabelled ==
    /\ op = "generate"
    /\ out.done
    /\ ~out.matched
    /\ LET matched == match_product(row)
       IN  /\ out' = [out EXCEPT !.matched = TRUE] @@ [top_1 |-> matched.top_1]
           /\ recommended_product' = matched.top_1
    /\ UNCHANGED <<op, row, late_payment_prob>>

NextMatcher == MatchProduct \/ GenerateLabel \/ PredictLabelled

SpecMatcher == InitMatcher /\ [][NextMatcher]_vars

(***************************************************************************)
(* SpecScore: compute_linear_risk_score called on a row of the validated   *)
(* numeric ranges, with known and unknown categories.                      *)
(***************************************************************************)
YearsPoints == {0, 40} \cup Around(2, 1) \cup Around(10, 1) \cup Around(20, 1)

\* hundredths: none, around the 3.0 target, and the largest ratio the API
\* admits (1,000,000 / 5,000)
LiquidityPoints == {0, 200 * 100} \cup Around(3 * 100, 1)

\* tenths of a hectare
ScoreSizePoints == {5, 9, 10, 99, 100, 999, 1000, 5000}

ScorePoints == {0, 100}

InitScore ==
    /\ op \in {"compute_linear_risk_score", "explain_score"}
    /\ row \in
        { [BaseRow EXCEPT !.region = g, !.farm_type = f, !.years_experience = y,
                          !.prior_defaults = d, !.liquidity_ratio = l,
                          !.farm_size_ha = z, !.device_trust_score = t,
                          !.identity_consistency = i] :
            g \in {"North", "West", "Unknown_Region"},
            f \in {"smallholder", "commercial", "Unknown_Farm"},
            y \in YearsPoints, d \in {0, 1, 4, 5}, l \in LiquidityPoints,
            z \in ScoreSizePoints, t \in ScorePoints, i \in ScorePoints }
    /\ recommended_product = ""
    /\ late_payment_prob = 0
    /\ out = NotDone

ComputeLinearRiskScore ==
    /\ op = "compute_linear_risk_score"
    /\ ~out.done
    /\ out' = [done |-> TRUE, terms |-> weighted_terms(row),
               linear_score |-> compute_linear_risk_score(row)]
    /\ UNCHANGED <<op, row, recommended_product, late_payment_prob>>

\* score_applicant_api: the score of the row, then its explanation
ExplainScore ==
    /\ op = "explain_score"
    /\ ~out.done
    /\ \E linear_score \in {compute_linear_risk_score(row)} :
           \E explanation \in {explain_score(row, linear_score)} :
               out' = [done |-> TRUE] @@ explanation
    /\ UNCHANGED <<op, row, recommended_product, late_payment_prob>>

NextScore == ComputeLinearRiskScore \/ ExplainScore

SpecScore == InitScore /\ [][NextScore]_vars

(***************************************************************************)
(* SpecCalibrator: get_risk_tier or get_decision called on a probability.  *)
(***************************************************************************)
InitCalibrator ==
    /\ op \in {"get_risk_tier", "get_decision"}
    /\ row = BaseRow
    /\ recommended_product = ""
    /\ late_payment_prob \in 0..PROB_ONE
    /\ out = NotDone

GetRiskTier ==
    /\ op = "get_risk_tier"
    /\ ~out.done
    /\ out' = [done |-> TRUE, risk_tier |-> get_risk_tier(late_payment_prob)]
    /\ UNCHANGED <<op, row, recommended_product, late_payment_prob>>

GetDecision ==
    /\ op = "get_decision"
    /\ ~out.done
    /\ out' = [done |-> TRUE, decision |-> get_decision(late_payment_prob)]
    /\ UNCHANGED <<op, row, recommended_product, late_payment_prob>>

NextCalibrator == GetRiskTier \/ GetDecision

SpecCalibrator == InitCalibrator /\ [][NextCalibrator]_vars

(***************************************************************************)
(* SpecSigmoid: sigmoid_pd_mapping called on a linear score, every score   *)
(* of [0, 1] in steps of 1/SCORE_ONE and two scores far above it.          *)
(***************************************************************************)
FarScores == { (28 * SCORE_ONE) \div 10, 3 * SCORE_ONE }

InitSigmoid ==
    /\ op = "sigmoid_pd_mapping"
    /\ row \in { [linear_score |-> n] : n \in (0..SCORE_ONE) \cup FarScores }
    /\ recommended_product = ""
    /\ late_payment_prob = 0
    /\ out = NotDone

SigmoidPdMapping ==
    /\ op = "sigmoid_pd_mapping"
    /\ ~out.done
    /\ late_payment_prob' = sigmoid_pd_mapping(row.linear_score)
    /\ out' = [done |-> TRUE,
               digits |-> IF row.linear_score \in FarScores
                          THEN PROB_ONE * late_payment_prob'
                          ELSE sigmoid_pd_digits(row.linear_score)]
    /\ UNCHANGED <<op, row, recommended_product>>

NextSigmoid == SigmoidPdMapping

SpecSigmoid == InitSigmoid /\ [][NextSigmoid]_vars

(***************************************************************************)
(* Spec: the end-to-end pipeline on one validated applicant.               *)
(***************************************************************************)
Init ==
    /\ op = "scoring_pipeline"
    /\ row \in
        { [region |-> g, farm_type |-> f, crop_type |-> c, farm_size_ha |-> z,
           years_experience |-> y, monthly_income_est |-> i,
           recent_cash_inflows |-> (l * i) \div 100, avg_order_value |-> a,
           device_trust_score |-> t, identity_consistency |-> k, prior_defaults |-> d,
           liquidity_ratio |-> l] :
            g \in {"North", "West"}, f \in FarmTypes,
            c \in {"maize", "horticulture", "mixed", "livestock"},
            z \in {32, 1200}, y \in {1, 22}, i \in {5000, 42000, 285000},
            l \in {0, 300}, a \in {10000, 18500, 95000}, t \in {10, 76, 92},
            k \in {10, 83}, d \in {0, 2, 5} }
    /\ recommended_product = ""
    /\ late_payment_prob = 0
    /\ out = NotDone

ScoringPipeline ==
    /\ op = "scoring_pipeline"
    /\ ~out.done
    /\ \E result \in {scoring_pipeline(row)} :
           /\ out' = [done |-> TRUE] @@ result
           /\ recommended_product' = result.recommended_product
           /\ late_payment_prob' = result.late_payment_prob
    /\ UNCHANGED <<op, row>>

Next == ScoringPipeline

Spec == Init /\ [][Next]_vars

(***************************************************************************)
(* api.py.  A request carries an applicant as it was submitted (no         *)
(* liquidity_ratio: the handlers derive it), or for the batch route a list *)
(* of applicants.  A JSON route has its body parsed into ApplicantProfile  *)
(* before its handler runs; the form route receives its fields as typed    *)
(* Form parameters.  A response is [status, error, core_rows, body]:       *)
(* core_rows lists the dicts the scoring functions were called with.       *)
(***************************************************************************)
\* ApplicantProfile: the Field bounds and the three validators
ValidProfile(a) ==
    /\ a.region \in Regions
    /\ a.farm_type \in FarmTypes
    /\ a.crop_type \in CropTypes
    /\ a.farm_size_ha >= 5 /\ a.farm_size_ha <= 500 * 10
    /\ a.years_experience >= 0 /\ a.years_experience <= 40
    /\ a.monthly_income_est >= 5000 /\ a.monthly_income_est <= 500000
    /\ a.recent_cash_inflows >= 0 /\ a.recent_cash_inflows <= 1000000
    /\ a.avg_order_value >= 1000 /\ a.avg_order_value <= 200000
    /\ a.device_trust_score >= 0 /\ a.device_trust_score <= 100
    /\ a.identity_consistency >= 0 /\ a.identity_consistency <= 100
    /\ a.prior_defaults >= 0 /\ a.prior_defaults <= 5

\* Python's float division raises ZeroDivisionError on a zero divisor
ZeroDivision(a) == a.monthly_income_est = 0

\* recent_cash_inflows / monthly_income_est, in hundredths; the caller has
\* established that the divisor is not zero
compute_liquidity_ratio(a) ==
    (a.recent_cash_inflows * 100) \div a.monthly_income_est

applicant_to_dict(a) == a @@ [liquidity_ratio |-> compute_liquidity_ratio(a)]

\* round(x, 3) of a probability, kept in 1/PROB_ONE.  A sigmoid value other
\* than 0.5 is irrational, so it is never at a tie and its fourth decimal
\* decides.
RoundProb3(p) == 10 * ((p + 5) \div 10)

\* round(x, 3) of a score or a contribution, kept in 1/SCORE_ONE
RoundScore3(x) == 30 * RoundHalfEven(Rat(x, 30))

HttpError(status, error) ==
    [status |-> status, error |-> error, core_rows |-> << >>, body |-> << >>]

\* POST /score: the whole handler; the except clause turns any exception into
\* a 500
score_applicant_web(form) ==
    IF ZeroDivision(form) THEN HttpError(500, "Scoring error: float division by zero")
    ELSE LET applicant_dict == applicant_to_dict(form)
             linear_score == compute_linear_risk_score(applicant_dict)
             late_prob == sigmoid_pd_mapping(linear_score)
             explanation == explain_score(applicant_dict, linear_score)
             matched == match_product(applicant_dict)
             product_info == get_product_info(matched.top_1)
         IN  [status |-> 200, error |-> "", core_rows |-> << applicant_dict >>,
              body |->
                [linear_risk_score |-> linear_score,
                 late_payment_prob |-> late_prob,
                 risk_tier |-> get_risk_tier(late_prob),
                 recommended_product |-> matched.top_1,
                 top_3_products |-> matched.top_3,
                 bnpl_limit |-> compute_bnpl_limit(applicant_dict, matched.top_1, late_prob),
                 bnpl_tenor_months |->
                     compute_bnpl_tenor(applicant_dict, matched.top_1, late_prob),
                 match_reason |-> product_info.description,
                 top_contributors |->
                     [i \in 1..Len(explanation.top_3_contributors) |->
                        [feature |-> explanation.top_3_contributors[i].feature,
                         contribution |-> explanation.top_3_contributors[i].contribution,
                         weight |-> explanation.top_3_contributors[i].weight]]]]

\* POST /api/score on a parsed ApplicantProfile
score_applicant_api(applicant) ==
    IF ZeroDivision(applicant)
    THEN HttpError(500, "Scoring error: float division by zero")
    ELSE LET applicant_dict == applicant_to_dict(applicant)
             linear_score == compute_linear_risk_score(applicant_dict)
             late_prob == sigmoid_pd_mapping(linear_score)
             explanation == explain_score(applicant_dict, linear_score)
         IN  [status |-> 200, error |-> "", core_rows |-> << applicant_dict >>,
              body |->
                [linear_risk_score |-> RoundScore3(linear_score),
                 late_payment_prob |-> RoundProb3(late_prob),
                 risk_tier |-> get_risk_tier(late_prob),
                 decision |-> get_decision(late_prob),
                 top_contributors |->
                     [i \in 1..Len(explanation.top_3_contributors) |->
                        [feature |-> explanation.top_3_contributors[i].feature,
                         contribution |->
                             RoundScore3(explanation.top_3_contributors[i].contribution),
                         weight |-> explanation.top_3_contributors[i].weight]]]]

\* POST /api/recommend_product on a parsed ApplicantProfile
recommend_product(applicant) ==
    IF ZeroDivision(applicant)
    THEN HttpError(500, "Recommendation error: float division by zero")
    ELSE LET applicant_dict == applicant_to_dict(applicant)
             linear_score == compute_linear_risk_score(applicant_dict)
             late_prob == sigmoid_pd_mapping(linear_score)
             matched == match_product(applicant_dict)
         IN  [status |-> 200, error |-> "", core_rows |-> << applicant_dict >>,
              body |->
                [recommended_product |-> matched.top_1,
                 top_3_products |-> matched.top_3,
                 bnpl_limit |-> compute_bnpl_limit(applicant_dict, matched.top_1, late_prob),
                 bnpl_tenor_months |->
                     compute_bnpl_tenor(applicant_dict, matched.top_1, late_prob),
                 late_payment_prob |-> RoundProb3(late_prob),
                 risk_tier |-> get_risk_tier(late_prob),
                 match_reason |->
                     << get_product_info(matched.top_1).description,
                        applicant.crop_type >>]]

(***************************************************************************)
(* SpecApi: one request to one of the four scoring routes.                 *)
(***************************************************************************)
JsonRoutes == {"POST /api/score", "POST /api/recommend_product", "POST /api/batch_score"}

\* the longest applicants list of a batch request
MaxBatch == 2

\* an applicant as submitted: the fields of ApplicantProfile
BaseApplicant == [k \in (DOMAIN BaseRow) \ {"liquidity_ratio"} |-> BaseRow[k]]

\* Submissions inside and outside the validated domain
SubmittedRows ==
    { [BaseApplicant EXCEPT !.region = g, !.farm_type = f, !.crop_type = c,
                            !.monthly_income_est = i, !.prior_defaults = d] :
        g \in {"North", "Unknown_Region"}, f \in {"smallholder", "Unknown_Farm"},
        c \in {"maize", "Unknown_Crop"}, i \in {0, 1000, 5000, 42000},
        d \in {0, 3, 6} }

\* Valid applicants whose probability is less than 0.0005 below 0.15 and
\* below 0.50 (a liquidity ratio of 1.52 and of 1.65)
NearThresholdRows ==
    { [BaseApplicant EXCEPT !.years_experience = 1, !.recent_cash_inflows = 63840],
      [BaseApplicant EXCEPT !.prior_defaults = 4, !.years_experience = 1,
                            !.recent_cash_inflows = 69300] }

\* The records of a batch: four valid ones, one of each risk tier, one with an
\* unknown region, one with an income of zero
BatchRows ==
    { BaseApplicant,
      [BaseApplicant EXCEPT !.prior_defaults = 3, !.years_experience = 1],
      [BaseApplicant EXCEPT !.prior_defaults = 4, !.years_experience = 1],
      [BaseApplicant EXCEPT !.prior_defaults = 5, !.years_experience = 1,
                            !.device_trust_score = 10, !.identity_consistency = 10,
                            !.recent_cash_inflows = 0],
      [BaseApplicant EXCEPT !.region = "Unknown_Region"],
      [BaseApplicant EXCEPT !.monthly_income_est = 0] }

BatchRequests == UNION { [1..n -> BatchRows] : n \in 0..MaxBatch }

InitApi ==
    /\ op \in JsonRoutes \cup {"POST /score"}
    /\ row \in (IF op = "POST /api/batch_score" THEN BatchRequests
                ELSE SubmittedRows \cup NearThresholdRows)
    /\ recommended_product = ""
    /\ late_payment_prob = 0
    /\ out = NotDone

\* The records of the request body
Applicants == IF op = "POST /api/batch_score" THEN row ELSE << row >>

\* A JSON body is parsed into its pydantic model before the handler runs; a
\* record that fails a Field bound or a validator rejects the request (422).
ParseBody ==
    /\ op \in JsonRoutes
    /\ out = NotDone
    /\ IF \A i \in 1..Len(Applicants) : ValidProfile(Applicants[i])
       THEN out' = [done |-> FALSE, core_rows |-> << >>, results |-> << >>,
                    approved_count |-> 0, declined_count |-> 0,
                    manual_review_count |-> 0]
       ELSE out' = [done |-> TRUE] @@ HttpError(422, "validation error")
    /\ UNCHANGED <<op, row, recommended_product, late_payment_prob>>

Parsed == ~out.done /\ out # NotDone

ScoreApplicantWeb ==
    /\ op = "POST /score"
    /\ out = NotDone
    /\ out' = [done |-> TRUE] @@ score_applicant_web(row)
    /\ UNCHANGED <<op, row, recommended_product, late_payment_prob>>

ScoreApplicantApi ==
    /\ op = "POST /api/score"
    /\ Parsed
    /\ out' = [done |-> TRUE] @@ score_applicant_api(row)
    /\ UNCHANGED <<op, row, recommended_product, late_payment_prob>>

RecommendProduct ==
    /\ op = "POST /api/recommend_product"
    /\ Parsed
    /\ out' = [done |-> TRUE] @@ recommend_product(row)
    /\ UNCHANGED <<op, row, recommended_product, late_payment_prob>>

\* Mutant: the High tier counted with the declined
CountedAs_high_declined(risk_tier) ==
    IF risk_tier = "Low" THEN "approved"
    ELSE IF risk_tier = "Medium" THEN "manual_review"
    ELSE "declined"

\* The counter of the batch summary that a response of this tier increments
CountedAs(risk_tier) ==
    IF risk_tier = "Low" THEN "approved"
    ELSE IF risk_tier \in {"Medium", "High"} THEN "manual_review"
    ELSE "declined"

\* batch_score, one iteration of its loop: the next applicant is evaluated
\* by recommend_product; an exception leaves the loop for the except clause
\* and the request ends with a 500.
BatchScoreStep ==
    /\ op = "POST /api/batch_score"
    /\ Parsed
    /\ Len(out.results) < Len(row)
    /\ \E response \in {recommend_product(row[Len(out.results) + 1])} :
           IF response.status # 200
           THEN out' = [done |-> TRUE, status |-> 500,
                        error |-> "Batch scoring error", core_rows |-> out.core_rows,
                        body |-> << >>]
           ELSE out' = [out EXCEPT
                   !.results = Append(@, response.body),
                   !.core_rows = @ \o response.core_rows,
                   !.approved_count =
                       IF CountedAs(response.body.risk_tier) = "approved"
                       THEN @ + 1 ELSE @,
                   !.manual_review_count =
                       IF CountedAs(response.body.risk_tier) = "manual_review"
                       THEN @ + 1 ELSE @,
                   !.declined_count =
                       IF CountedAs(response.body.risk_tier) = "declined"
                       THEN @ + 1 ELSE @]
    /\ UNCHANGED <<op, row, recommended_product, late_payment_prob>>

\* batch_score after its loop: the summary and the response
BatchScoreReturn ==
    /\ op = "POST /api/batch_score"
    /\ Parsed
    /\ Len(out.results) = Len(row)
    /\ out' = [done |-> TRUE, status |-> 200, error |-> "",
               core_rows |-> out.core_rows,
               body |-> [results |-> out.results,
                         batch_summary |->
                             [total_count |-> Len(row),
                              approved_count |-> out.approved_count,
                              declined_count |-> out.declined_count,
                              manual_review_count |-> out.manual_review_count]]]
    /\ UNCHANGED <<op, row, recommended_product, late_payment_prob>>

NextApi ==
    \/ ParseBody
    \/ ScoreApplicantWeb
    \/ ScoreApplicantApi
    \/ RecommendProduct
    \/ BatchScoreStep
    \/ BatchScoreReturn

SpecApi == InitApi /\ [][NextApi]_vars

(***************************************************************************)
(* Claims                                                                  *)
(***************************************************************************)
LimitDone == op = "compute_bnpl_limit" /\ out.done

TenorDone == op = "compute_bnpl_tenor" /\ out.done

\* C1: compute_bnpl_limit returns 0 if and only if the probability is at
\* least 0.50, and a strictly positive limit for every probability below it.
C1_LimitZeroIffDecline ==
    LimitDone =>
        /\ (out.bnpl_limit = 0) <=> (late_payment_prob >= Pct(50))
        /\ (late_payment_prob < Pct(50)) => (out.bnpl_limit > 0)

\* C2: compute_bnpl_tenor returns 0 if and only if the probability is at
\* least 0.50, and a strictly positive tenor for every probability below it,
\* for known and unknown product names alike.
C2_TenorZeroIffDecline ==
    TenorDone =>
        /\ (out.bnpl_tenor = 0) <=> (late_payment_prob >= Pct(50))
        /\ (late_payment_prob < Pct(50)) => (out.bnpl_tenor > 0)

\* The shortest product (Cash_Advance, 2 months) just below the decline gate
\* keeps the 2-month floor.
C2_Witness ==
    /\ TenorDone
    /\ recommended_product = "Cash_Advance"
    /\ late_payment_prob = Pct(50) - 1
    /\ out.bnpl_tenor = 2

RulePriority(product) ==
    CASE product = "Seeds_BNPL" -> 1
      [] product = "Fertilizer_BNPL" -> 2
      [] product = "Equipment_Lease" -> 3
      [] product = "Input_Bundle" -> 4
      [] product = "Cash_Advance" -> 5
      [] product = "Premium_BNPL" -> 6

\* C4: the top-1 of match_product is the generator's label, the product of
\* the first rule in priority order that fires; and the ranking never puts
\* a lower-priority candidate above a higher-priority one.
C4_Top1IsLabel ==
    /\ (op = "generate" /\ out.done /\ out.matched)
           => (out.top_1 = out.true_preferred_product)
    /\ (op = "match_product" /\ out.done) =>
           /\ out.top_1 = true_preferred_product(row)
           /\ LET u == unique_products(row)
              IN  \A i, j \in 1..Len(u) :
                      (i < j) => (RulePriority(u[i].product) < RulePriority(u[j].product))

\* Equipment_Lease without its size boost against Input_Bundle with both of
\* its boosts: 92 against 91
C4_Witness ==
    /\ op = "match_product"
    /\ out.done
    /\ row.crop_type = "mixed"
    /\ row.farm_type = "commercial"
    /\ row.avg_order_value > 80000
    /\ row.farm_size_ha > 10 * 10
    /\ row.farm_size_ha <= 50 * 10
    /\ row.device_trust_score > 80
    /\ out.top_1 = "Equipment_Lease"
    /\ out.top_3[2] = "Input_Bundle"

\* C5: top-3 has between 1 and 3 entries, pairwise distinct, and its first
\* entry is top-1.
C5_Top3Shape ==
    (op = "match_product" /\ out.done) =>
        /\ Len(out.top_3) \in 1..3
        /\ \A i, j \in 1..Len(out.top_3) : (i # j) => (out.top_3[i] # out.top_3[j])
        /\ out.top_3[1] = out.top_1

\* Four rules fire and the list is cut to three
C5_Witness ==
    /\ op = "match_product"
    /\ out.done
    /\ Len(product_scores(row)) = 4
    /\ Len(out.top_3) = 3
    /\ out.top_3[1] = out.top_1

\* The rows that agree with r on the five fields match_product reads and
\* differ in one or in all of the others
OtherFieldVariants(r) ==
    { [r EXCEPT !.region = "West"],
      [r EXCEPT !.years_experience = 40],
      [r EXCEPT !.monthly_income_est = 500000],
      [r EXCEPT !.recent_cash_inflows = 0],
      [r EXCEPT !.identity_consistency = 0],
      [r EXCEPT !.identity_consistency = 100],
      [r EXCEPT !.prior_defaults = 5],
      [r EXCEPT !.liquidity_ratio = 0],
      [r EXCEPT !.region = "Unknown_Region", !.years_experience = 0,
                !.monthly_income_est = 5000, !.recent_cash_inflows = 1000000,
                !.identity_consistency = 71, !.prior_defaults = 3,
                !.liquidity_ratio = 200 * 100] }

\* C6: the result of match_product is a function of crop_type,
\* avg_order_value, farm_type, device_trust_score and farm_size_ha alone: a
\* row that agrees on these five gets the same top-1 and the same top-3 in
\* the same order, whatever its other fields.
C6_MatchReadsFiveFields ==
    (op = "match_product" /\ out.done) =>
        \A r2 \in OtherFieldVariants(row) :
            /\ match_product(r2).top_1 = out.top_1
            /\ match_product(r2).top_3 = out.top_3

\* A row on which rule 5 (Cash_Advance) fires, so that a rule reading a
\* sixth field would show
C6_Witness ==
    /\ op = "match_product"
    /\ out.done
    /\ row.avg_order_value < 15000
    /\ row.device_trust_score > 70
    /\ \E i \in 1..Len(out.top_3) : out.top_3[i] = "Cash_Advance"
    /\ \A r2 \in OtherFieldVariants(row) : match_product(r2).top_3 = out.top_3

\* The eight weights, in hundredths, in the order of the sum
Weights == << 12, 18, 15, 20, 10, 8, 10, 7 >>

\* C7: the linear risk score of a valid applicant is in [0, 1], each of its
\* eight weighted terms being non-negative and at most its weight.
C7_ScoreInUnitInterval ==
    (op = "compute_linear_risk_score" /\ out.done) =>
        /\ Len(out.terms) = 8
        /\ \A i \in 1..8 : out.terms[i] >= 0 /\ out.terms[i] <= Weights[i] * RISK_ONE
        /\ out.linear_score >= 0
        /\ out.linear_score <= SCORE_ONE

\* A liquidity ratio above the 3.0 target, where the cap at 1.0 acts, on the
\* riskiest values of the other features
C7_Witness ==
    /\ op = "compute_linear_risk_score"
    /\ out.done
    /\ row.liquidity_ratio > 3 * 100
    /\ out.terms[5] = 0
    /\ row.prior_defaults = 5
    /\ row.device_trust_score = 0
    /\ row.identity_consistency = 0
    /\ row.farm_size_ha < 1 * 10
    /\ out.linear_score > 0

TierRank(tier) ==
    CASE tier = "Low" -> 1
      [] tier = "Medium" -> 2
      [] tier = "High" -> 3
      [] tier = "Decline" -> 4

\* C8: get_risk_tier is Low below 0.15, Medium from 0.15 to below 0.35, High
\* from 0.35 to below 0.50 and Decline from 0.50, and it never decreases as
\* the probability grows.
C8_TierStepFunction ==
    (op = "get_risk_tier" /\ out.done) =>
        /\ (late_payment_prob < Pct(15)) <=> (out.risk_tier = "Low")
        /\ (late_payment_prob >= Pct(15) /\ late_payment_prob < Pct(35))
               <=> (out.risk_tier = "Medium")
        /\ (late_payment_prob >= Pct(35) /\ late_payment_prob < Pct(50))
               <=> (out.risk_tier = "High")
        /\ (late_payment_prob >= Pct(50)) <=> (out.risk_tier = "Decline")
        /\ \A q \in ProbPoints :
               (q <= late_payment_prob)
                   => (TierRank(get_risk_tier(q)) <= TierRank(out.risk_tier))

\* The boundary value 0.35 belongs to High
C8_Witness ==
    /\ op = "get_risk_tier"
    /\ out.done
    /\ late_payment_prob = Pct(35)
    /\ out.risk_tier = "High"

\* C9: the decision is approve exactly when the tier is Low, manual_review
\* exactly when the tier is Medium or High, and decline exactly when the
\* tier is Decline.
C9_LaddersSynchronized ==
    (op = "get_decision" /\ out.done) =>
        /\ (out.decision = "approve") <=> (get_risk_tier(late_payment_prob) = "Low")
        /\ (out.decision = "manual_review")
               <=> (get_risk_tier(late_payment_prob) \in {"Medium", "High"})
        /\ (out.decision = "decline") <=> (get_risk_tier(late_payment_prob) = "Decline")

\* The shared boundary value 0.15 is manual_review and Medium
C9_Witness ==
    /\ op = "get_decision"
    /\ out.done
    /\ late_payment_prob = Pct(15)
    /\ out.decision = "manual_review"
    /\ get_risk_tier(late_payment_prob) = "Medium"

\* C10: compute_bnpl_limit returns a non-negative integer that is a multiple
\* of 1,000.
C10_LimitMultipleOfThousand ==
    LimitDone =>
        /\ out.bnpl_limit \in Nat
        /\ out.bnpl_limit % 1000 = 0

\* A limit whose unrounded value is not a whole number and is rounded up
C10_Witness ==
    /\ LimitDone
    /\ late_payment_prob < Pct(50)
    /\ bnpl_limit_unrounded(row, recommended_product, late_payment_prob).d # 1
    /\ out.bnpl_limit > 0
    /\ RatLess(bnpl_limit_unrounded(row, recommended_product, late_payment_prob),
               Rat(out.bnpl_limit, 1))

\* C11: for a fixed applicant and product, compute_bnpl_limit does not grow
\* with the probability: every smaller probability gets a limit at least as
\* large, across the rounding and across the 0.50 gate.
C11_LimitNonIncreasing ==
    LimitDone =>
        \A q \in ProbPoints :
            (q <= late_payment_prob)
                => (compute_bnpl_limit(row, recommended_product, q) >= out.bnpl_limit)

\* A positive limit that is strictly below the limit of a smaller probability
C11_Witness ==
    /\ LimitDone
    /\ late_payment_prob < Pct(50)
    /\ out.bnpl_limit > 0
    /\ \E q \in ProbPoints :
           /\ q < late_payment_prob
           /\ compute_bnpl_limit(row, recommended_product, q) > out.bnpl_limit

\* C12: compute_bnpl_tenor returns at most 4 for maize and rice and at most 3
\* for horticulture, for every product and probability; for any other crop
\* it returns the risk-adjusted tenor unchanged.
C12_TenorCropCaps ==
    TenorDone =>
        /\ (row.crop_type \in {"maize", "rice"}) => (out.bnpl_tenor <= 4)
        /\ (row.crop_type = "horticulture") => (out.bnpl_tenor <= 3)
        /\ (/\ row.crop_type \notin {"maize", "rice", "horticulture"}
            /\ late_payment_prob < Pct(50))
               => (out.bnpl_tenor = risk_adjusted_tenor(recommended_product,
                                                        late_payment_prob))

\* Equipment_Lease (base tenor 12) on rice at low risk is cut to 4
C12_Witness ==
    /\ TenorDone
    /\ recommended_product = "Equipment_Lease"
    /\ row.crop_type = "rice"
    /\ late_payment_prob < Pct(15)
    /\ risk_adjusted_tenor(recommended_product, late_payment_prob) = 12
    /\ out.bnpl_tenor = 4

\* The feature names of the eight sub-risks, in the order of the sum
FeatureNames ==
    << "region_risk", "farm_type_risk", "experience_risk", "prior_defaults",
       "liquidity_risk", "farm_size_risk", "device_trust", "identity_consistency" >>

ExplainDone == op = "explain_score" /\ out.done

RECURSIVE SumContributions(_)
SumContributions(s) ==
    IF s = << >> THEN 0 ELSE Head(s).contribution + SumContributions(Tail(s))

\* C13: the contributions returned by explain_score for a row sum to the
\* linear risk score of that row, and the contribution of each feature is
\* the corresponding weighted term of compute_linear_risk_score.
C13_ContributionsSumToScore ==
    ExplainDone =>
        /\ SumContributions(out.all_components) = compute_linear_risk_score(row)
        /\ out.linear_risk_score = compute_linear_risk_score(row)
        /\ \A i \in 1..Len(FeatureNames) :
               \A j \in 1..Len(out.all_components) :
                   (out.all_components[j].feature = FeatureNames[i])
                       => (out.all_components[j].contribution = weighted_terms(row)[i])

\* An unknown region and an unknown farm type, where both functions fall
\* back to their defaults, with a positive score
C13_Witness ==
    /\ ExplainDone
    /\ row.region = "Unknown_Region"
    /\ row.farm_type = "Unknown_Farm"
    /\ row.liquidity_ratio > 3 * 100
    /\ out.linear_risk_score > 0
    /\ SumContributions(out.all_components) = out.linear_risk_score

\* C14: all_components has exactly 8 entries, one for each feature, in
\* non-increasing order of contribution, and top_3_contributors is its
\* first three entries.
C14_ComponentsSortedTop3 ==
    ExplainDone =>
        /\ Len(out.all_components) = 8
        /\ out.total_contributors = 8
        /\ \A i \in 1..Len(FeatureNames) :
               Cardinality({ j \in 1..Len(out.all_components) :
                                out.all_components[j].feature = FeatureNames[i] }) = 1
        /\ \A j \in 1..(Len(out.all_components) - 1) :
               out.all_components[j].contribution >= out.all_components[j + 1].contribution
        /\ out.top_3_contributors = SubSeq(out.all_components, 1, 3)

\* A row whose largest contribution is not the first component built, so
\* that the sort has moved it
C14_Witness ==
    /\ ExplainDone
    /\ out.all_components[1].feature = "prior_defaults"
    /\ out.all_components[1].contribution > out.all_components[2].contribution
    /\ out.top_3_contributors[1].feature = "prior_defaults"
    /\ Len(out.top_3_contributors) = 3

\* C15: in batch_score a record whose evaluation fails does not abort the
\* batch: the request is answered, with one entry per record, and every
\* other record has the result its own evaluation gives.
C15_BatchFailureIsolated ==
    (op = "POST /api/batch_score" /\ out.done) =>
        /\ out.status = 200
        /\ Len(out.body.results) = Len(row)
        /\ \A i \in 1..Len(row) :
               ValidProfile(row[i]) => (out.body.results[i] = recommend_product(row[i]).body)

\* C16: on every route, each record the scoring functions are called with
\* has passed the validation of ApplicantProfile.
C16_CoreOnlyOnValidated ==
    out.done =>
        \A i \in 1..Len(out.core_rows) : ValidProfile(out.core_rows[i])

\* C17: a request in which a liquidity ratio would be derived from a
\* monthly_income_est of zero ends in an invalid-input error, and no scoring
\* function is called on a row of it.
C17_ZeroIncomeIsInvalidInput ==
    (out.done /\ \E i \in 1..Len(Applicants) : Applicants[i].monthly_income_est = 0) =>
        /\ out.status = 422
        /\ out.core_rows = << >>

\* The other seven terms of the score
OtherTerms(d, k) ==
    SumSeq([i \in 1..7 |-> weighted_terms(d)[IF i < k THEN i ELSE i + 1]])

\* C18: an unknown category is no error in the scoring functions.  On the
\* form route, which passes categories on as submitted: the request is
\* answered; an unknown region counts 0.20 and an unknown farm type 0.25 in
\* the score and in the explanation; with an unknown crop no crop rule
\* fires and the tenor is the risk-adjusted tenor, uncapped.
C18_UnknownCategoryDefaults ==
    (op = "POST /score" /\ out.done /\ ~ZeroDivision(row)) =>
        /\ out.status = 200
        /\ (row.region \notin Regions) =>
               /\ out.body.linear_risk_score - OtherTerms(out.core_rows[1], 1)
                      = 12 * Risk(20)
               /\ \A i \in 1..Len(out.body.top_contributors) :
                      (out.body.top_contributors[i].feature = "region_risk")
                          => (out.body.top_contributors[i].contribution = 12 * Risk(20))
        /\ (row.farm_type \notin FarmTypes) =>
               /\ out.body.linear_risk_score - OtherTerms(out.core_rows[1], 2)
                      = 18 * Risk(25)
               /\ \A i \in 1..Len(out.body.top_contributors) :
                      (out.body.top_contributors[i].feature = "farm_type_risk")
                          => (out.body.top_contributors[i].contribution = 18 * Risk(25))
        /\ (row.crop_type \notin CropTypes) =>
               /\ out.body.recommended_product \notin {"Seeds_BNPL", "Fertilizer_BNPL"}
               /\ \A i \in 1..Len(out.body.top_3_products) :
                      out.body.top_3_products[i] \notin {"Seeds_BNPL", "Fertilizer_BNPL"}
               /\ (out.body.late_payment_prob < Pct(50)) =>
                      (out.body.bnpl_tenor_months
                           = risk_adjusted_tenor(out.body.recommended_product,
                                                 out.body.late_payment_prob))

\* All three categories unknown at once, both defaults among the top three
\* contributors, and a tenor above the grain cap
C18_Witness ==
    /\ op = "POST /score"
    /\ out.done
    /\ out.status = 200
    /\ row.region \notin Regions
    /\ row.farm_type \notin FarmTypes
    /\ row.crop_type \notin CropTypes
    /\ \E i \in 1..3 : out.body.top_contributors[i].feature = "region_risk"
    /\ \E i \in 1..3 : out.body.top_contributors[i].feature = "farm_type_risk"
    /\ out.body.bnpl_tenor_months > 4

ExplanationDone == op = "get_policy_explanation" /\ out.done

\* C19: an unknown product name gets base limit 50,000 and base tenor 6 in
\* compute_bnpl_limit and compute_bnpl_tenor; and for every product name
\* get_product_info reports the base limit and base tenor, and
\* get_policy_explanation the base tenor, that the two functions use.
C19_UnknownProductDefaults ==
    /\ (LimitDone /\ recommended_product \notin Products) =>
           (out.bnpl_limit =
               IF late_payment_prob >= Pct(50) THEN 0
               ELSE RoundToThousands(
                        RatMul(RatMul(RatMul(Rat(50000, 1), risk_mult(late_payment_prob)),
                                      income_mult(row)), tenure_mult(row))))
    /\ (TenorDone /\ recommended_product \notin Products
          /\ row.crop_type \notin {"maize", "rice", "horticulture"}) =>
           (out.bnpl_tenor =
               IF late_payment_prob >= Pct(50) THEN 0
               ELSE IF late_payment_prob < Pct(15) THEN 6
               ELSE IF late_payment_prob < Pct(30) THEN 5
               ELSE 4)
    /\ (op = "get_product_info" /\ out.done) =>
           /\ out.product_info.base_limit = base_limits(recommended_product)
           /\ out.product_info.base_tenor_months = base_tenors(recommended_product)
    /\ ExplanationDone =>
           (out.explanation.tenor_breakdown.base_tenor = base_tenors(recommended_product))

\* The metadata of an unknown product
C19_Witness ==
    /\ op = "get_product_info"
    /\ out.done
    /\ recommended_product \notin Products
    /\ out.product_info.description = "Unknown product"
    /\ out.product_info.base_limit = 50000
    /\ out.product_info.base_tenor_months = 6

\* C20: get_policy_explanation reports base_limit 0 when the product of the
\* three multipliers is zero and the quotient otherwise; and for an income
\* of at least 5,000 the multipliers are at least 0.2, 0.1 and 1.0, so their
\* product is positive and the quotient is reported.
C20_BackSolveGuard ==
    ExplanationDone =>
        LET lb == out.explanation.limit_breakdown
            prod == RatMul(RatMul(lb.risk_multiplier, lb.income_multiplier),
                           lb.tenure_multiplier)
        IN  /\ (prod.n = 0) => (lb.base_limit = NoBackSolve)
            /\ (prod.n > 0) => (lb.base_limit = BackSolved(lb.final_limit, prod))
            /\ (row.monthly_income_est >= 5000) =>
                   /\ ~RatLess(lb.risk_multiplier, Rat(2, 10))
                   /\ ~RatLess(lb.income_multiplier, Rat(1, 10))
                   /\ ~RatLess(lb.tenure_multiplier, Rat(1, 1))
                   /\ prod.n > 0

\* A row with no income: the product is zero and the guard answers
C20_Witness ==
    /\ ExplanationDone
    /\ row.monthly_income_est = 0
    /\ out.explanation.limit_breakdown.income_multiplier.n = 0
    /\ out.explanation.limit_breakdown.base_limit = NoBackSolve
    /\ out.explanation.limit_breakdown.final_limit = 0

BatchAnswered == op = "POST /api/batch_score" /\ out.done /\ out.status = 200

\* The decision of an applicant scored on its own
DecisionOf(a) ==
    get_decision(sigmoid_pd_mapping(compute_linear_risk_score(applicant_to_dict(a))))

\* How many applicants of a list get the decision d
DecisionCount(applicants, d) ==
    Cardinality({ i \in 1..Len(applicants) : DecisionOf(applicants[i]) = d })

\* The orderings of a list
Orderings(applicants) ==
    { [i \in 1..Len(applicants) |-> applicants[f[i]]] :
        f \in { g \in [1..Len(applicants) -> 1..Len(applicants)] :
                  \A i, j \in 1..Len(applicants) : (i # j) => (g[i] # g[j]) } }

\* C21: a batch of validated applicants is answered with one result per
\* applicant, in input order, each the result of that applicant scored
\* alone; the three counts of the summary add up to total_count and are the
\* numbers of applicants whose decision is approve, manual_review and
\* decline, in whatever order the applicants are listed.
C21_BatchSummaryCounts ==
    BatchAnswered =>
        LET summary == out.body.batch_summary
        IN  /\ Len(out.body.results) = Len(row)
            /\ \A i \in 1..Len(row) :
                   out.body.results[i] = recommend_product(row[i]).body
            /\ summary.total_count = Len(row)
            /\ summary.approved_count + summary.manual_review_count
                   + summary.declined_count = summary.total_count
            /\ \A q \in Orderings(row) :
                   /\ summary.approved_count = DecisionCount(q, "approve")
                   /\ summary.manual_review_count = DecisionCount(q, "manual_review")
                   /\ summary.declined_count = DecisionCount(q, "decline")

\* A batch of two applicants of different outcome, one of them High tier
C21_Witness ==
    /\ BatchAnswered
    /\ Len(row) = 2
    /\ out.body.results[1].risk_tier = "High"
    /\ out.body.results[2].risk_tier = "Low"
    /\ out.body.batch_summary.manual_review_count = 1
    /\ out.body.batch_summary.approved_count = 1
    /\ out.body.batch_summary.declined_count = 0

SigmoidDone == op = "sigmoid_pd_mapping" /\ out.done

PipelineDone == op = "scoring_pipeline" /\ out.done

\* The applicant that carries the highest risk in every field the claim fixes
WorstCase(r) ==
    /\ r.region = "West"
    /\ r.farm_type = "smallholder"
    /\ r.years_experience = 1
    /\ r.prior_defaults = 5
    /\ r.device_trust_score = 10
    /\ r.identity_consistency = 10
    /\ r.liquidity_ratio = 0

\* The worst-case applicant with another valid farm size and crop
WorstCaseVariants(r) ==
    { [r EXCEPT !.farm_size_ha = z, !.crop_type = c] :
        z \in SizePoints, c \in CropTypes }

\* A pipeline result that declines, with no limit and no tenor
Declined(result) ==
    /\ result.late_payment_prob >= Pct(50)
    /\ result.risk_tier = "Decline"
    /\ result.decision = "decline"
    /\ result.bnpl_limit = 0
    /\ result.bnpl_tenor_months = 0

\* C23: the worst-case applicant (West, smallholder, 1 year of experience,
\* 5 prior defaults, device trust 10, identity consistency 10, liquidity
\* ratio 0), whatever its farm size, crop, income and order value, gets a
\* probability of at least 0.50, tier Decline, decision decline, and limit 0
\* and tenor 0 for every product match_product returns.
C23_WorstCaseDeclined ==
    (PipelineDone /\ WorstCase(row)) =>
        /\ Declined(out)
        /\ \A w \in WorstCaseVariants(row) :
               /\ Declined(scoring_pipeline(w))
               /\ \A i \in 1..Len(match_product(w).top_3) :
                      LET product == match_product(w).top_3[i]
                          p == sigmoid_pd_mapping(compute_linear_risk_score(w))
                      IN  /\ compute_bnpl_limit(w, product, p) = 0
                          /\ compute_bnpl_tenor(w, product, p) = 0

\* A worst-case applicant with a high income, matched to two products
C23_Witness ==
    /\ PipelineDone
    /\ WorstCase(row)
    /\ row.monthly_income_est = 285000
    /\ Len(out.top_3_products) = 2
    /\ out.bnpl_limit = 0
    /\ out.decision = "decline"

\* The eight raw risks of compute_linear_risk_score, in the order of its sum
raw_risks(r) ==
    << region_map(r.region), farm_type_map(r.farm_type), experience_risk(r),
       prior_defaults_risk(r), liquidity_risk(r), farm_size_risk(r),
       device_risk(r), identity_risk(r) >>

RECURSIVE SumWeights(_)
SumWeights(s) == IF s = << >> THEN 0 ELSE Head(s).weight + SumWeights(Tail(s))

\* C24: the eight weights sum to exactly 1.00 (100 hundredths), and the
\* weight explain_score reports for a feature is the weight that feature has
\* in the sum of compute_linear_risk_score.
C24_WeightsSumToOneAndAgree ==
    /\ (op = "compute_linear_risk_score" /\ out.done) =>
           \A i \in 1..8 : out.terms[i] = Weights[i] * raw_risks(row)[i]
    /\ ExplainDone =>
           /\ SumWeights(out.all_components) = 100
           /\ \A i \in 1..8 :
                  \E j \in 1..Len(out.all_components) :
                      /\ out.all_components[j].feature = FeatureNames[i]
                      /\ out.all_components[j].weight = Weights[i]
                      /\ out.all_components[j].weight * raw_risks(row)[i]
                             = weighted_terms(row)[i]

\* An explanation of a row all of whose eight risks are above zero, so that
\* every weight shows in its term
C24_Witness ==
    /\ ExplainDone
    /\ Len(out.all_components) = 8
    /\ \A i \in 1..8 : raw_risks(row)[i] > 0

\* The limit of the same call with another monthly income
LimitAtIncome(income) ==
    compute_bnpl_limit([row EXCEPT !.monthly_income_est = income],
                       recommended_product, late_payment_prob)

\* C25: with the product, a probability below 0.50 and the other features
\* fixed, the limit does not fall when monthly_income_est rises, and it is
\* the same for every income of 125,000 or more.
C25_LimitMonotoneInIncome ==
    (LimitDone /\ late_payment_prob < Pct(50)) =>
        \A income \in IncomePoints :
            /\ (income >= row.monthly_income_est)
                   => LimitAtIncome(income) >= out.bnpl_limit
            /\ (income >= 125000 /\ row.monthly_income_est >= 125000)
                   => LimitAtIncome(income) = out.bnpl_limit

\* The highest income: the limit is above that of an income of 50,000 and
\* is the limit of an income of 125,000
C25_Witness ==
    /\ LimitDone
    /\ late_payment_prob < Pct(50)
    /\ row.monthly_income_est = 500000
    /\ out.bnpl_limit > LimitAtIncome(50000)
    /\ out.bnpl_limit = LimitAtIncome(125000)

MatchDone == op = "match_product" /\ out.done

\* The rules 1-5 whose condition the row meets
rules_fired(r) ==
    { i \in 1..5 :
        CASE i = 1 -> r.crop_type \in {"maize", "rice"} /\ r.avg_order_value < 30000
          [] i = 2 -> r.crop_type \in {"vegetables", "horticulture"}
                      /\ r.avg_order_value < 50000
          [] i = 3 -> r.farm_type = "commercial" /\ r.avg_order_value > 80000
          [] i = 4 -> r.crop_type = "mixed"
                      \/ (r.farm_type = "cooperative" /\ r.device_trust_score > 60)
          [] i = 5 -> r.avg_order_value < 15000 /\ r.device_trust_score > 70 }

\* C26: no product name is appended twice, so the candidate list has no
\* duplicate, the de-duplication pass removes nothing, and the ranked list
\* has as many entries as rules fired: between 1 and 6, Premium_BNPL always
\* one of them.
C26_NoDuplicateCandidates ==
    MatchDone =>
        LET ps == product_scores(row)
            ranked == unique_products(row)
        IN  /\ \A i, j \in 1..Len(ps) : (i # j) => (ps[i].product # ps[j].product)
            /\ ranked = SortDesc(boosted_scores(row))
            /\ Len(ranked) = Cardinality(rules_fired(row)) + 1
            /\ Len(ranked) \in 1..6
            /\ \E i \in 1..Len(ranked) : ranked[i].product = "Premium_BNPL"
            /\ Len(out.top_3) = Min(3, Cardinality(rules_fired(row)) + 1)

\* Four rules fire: Seeds_BNPL, Input_Bundle, Cash_Advance and the fallback
C26_Witness ==
    /\ MatchDone
    /\ rules_fired(row) = {1, 4, 5}
    /\ Len(unique_products(row)) = 4
    /\ Len(out.top_3) = 3

\* The candidate list in every order the rules could have appended it
Reorderings(s) ==
    { [i \in 1..Len(s) |-> s[f[i]]] :
        f \in { g \in [1..Len(s) -> 1..Len(s)] :
                  \A i, j \in 1..Len(s) : (i # j) => (g[i] # g[j]) } }

\* C27: no two candidates of one match_product evaluation have the same
\* boosted score, so top-1 and the order of top-3 are decided by the scores
\* alone: the candidates appended in any other order rank the same.
C27_NoTiedScores ==
    MatchDone =>
        LET bs == boosted_scores(row)
        IN  /\ \A i, j \in 1..Len(bs) : (i # j) => (bs[i].score # bs[j].score)
            /\ \A q \in Reorderings(bs) :
                   LET ranked == Unique(SortDesc(q), {})
                   IN  /\ ranked[1].product = out.top_1
                       /\ [i \in 1..Min(3, Len(ranked)) |-> ranked[i].product]
                              = out.top_3

\* Equipment_Lease and Input_Bundle together on a farm between 10 and 50
\* hectares, where their boosted scores are one point apart
C27_Witness ==
    /\ MatchDone
    /\ rules_fired(row) = {3, 4}
    /\ row.farm_size_ha > 10 * 10
    /\ row.farm_size_ha <= 50 * 10
    /\ out.top_3 = << "Equipment_Lease", "Input_Bundle", "Premium_BNPL" >>

\* Whether a product is one of the returned top 3
InTop3(product) == \E i \in 1..Len(out.top_3) : out.top_3[i] = product

\* C28: top-1 is Premium_BNPL exactly when none of rules 1-5 fires, and
\* Premium_BNPL is in top-3 exactly when at most two of rules 1-5 fire,
\* because it is ranked last among the candidates; with three or more of
\* them fired the fallback is not in top-3.
C28_FallbackRankedLast ==
    MatchDone =>
        LET ranked == unique_products(row)
            fired == Cardinality(rules_fired(row))
        IN  /\ (out.top_1 = "Premium_BNPL") <=> (fired = 0)
            /\ InTop3("Premium_BNPL") <=> (fired <= 2)
            /\ ranked[Len(ranked)].product = "Premium_BNPL"
            /\ (fired >= 3) => ~InTop3("Premium_BNPL")

\* Seeds_BNPL, Input_Bundle and Cash_Advance fire together and fill top-3
C28_Witness ==
    /\ MatchDone
    /\ rules_fired(row) = {1, 4, 5}
    /\ out.top_3 = << "Seeds_BNPL", "Input_Bundle", "Cash_Advance" >>
    /\ ~InTop3("Premium_BNPL")

\* C29: for a probability below 0.50 the tenor is at least 2 and at most
\* the base tenor of the product; with the row and the product fixed the
\* tenor does not rise when the probability rises over [0, 1].
C29_TenorBoundedAndMonotone ==
    TenorDone =>
        /\ (late_payment_prob < Pct(50))
               => /\ out.bnpl_tenor >= 2
                  /\ out.bnpl_tenor <= base_tenors(recommended_product)
        /\ \A p \in ProbPoints :
               (p >= late_payment_prob)
                   => compute_bnpl_tenor(row, recommended_product, p) <= out.bnpl_tenor

\* Equipment_Lease on an uncapped crop in the middle band: 11 months, below
\* the 12 of the low band and above the 10 of the high band
C29_Witness ==
    /\ TenorDone
    /\ recommended_product = "Equipment_Lease"
    /\ row.crop_type = "livestock"
    /\ late_payment_prob = Pct(15)
    /\ out.bnpl_tenor = 11
    /\ compute_bnpl_tenor(row, recommended_product, Pct(30)) = 10

RecommendAnswered ==
    op = "POST /api/recommend_product" /\ out.done /\ out.status = 200

\* C30: in every recommend_product response the risk tier is the tier of
\* the reported (3-decimal) late_payment_prob, and limit and tenor are both
\* 0 exactly when the reported late_payment_prob is at least 0.50.
C30_ReportedProbConsistent ==
    RecommendAnswered =>
        /\ out.body.risk_tier = get_risk_tier(out.body.late_payment_prob)
        /\ (out.body.bnpl_limit = 0 /\ out.body.bnpl_tenor_months = 0)
               <=> (out.body.late_payment_prob >= Pct(50))

====
